---- MODULE Spec2Model ----
(***************************************************************************)
(* finKits: the rolling-window liquidity estimators of src/liq_model.py    *)
(* (Abdi-Ranaldo, Corwin-Schultz) and the Black-Scholes engine of          *)
(* src/api.py, as state machines over a small model of numpy's float       *)
(* arithmetic.                                                             *)
(*                                                                         *)
(* Numbers.  A float is a record [k, v]: k = "fin" with v the value in     *)
(* thousandths (fixed point, SCALE = 1000), or one of the three IEEE       *)
(* specials NaN, +Inf, -Inf.  The operations follow numpy's default error  *)
(* state (warn, never raise): log(0) = -Inf, log(x < 0) = NaN, x/0 = +-Inf,*)
(* 0/0 = NaN, Inf - Inf = NaN, NaN propagates.  Signed zeros are not       *)
(* modelled (0 is +0).                                                     *)
(*                                                                         *)
(* Prices of the liquidity estimators are whole numbers of TOL (1e-9), so  *)
(* that "low + TOL" is exact: price p stands for p * 1e-9.  The numbers of *)
(* BlackScholes are plain fixed-point numbers.                             *)
(*                                                                         *)
(* One call is modelled at a time: an operation is entered from "idle"     *)
(* with arguments drawn from the bounded sets below and runs to "done".    *)
(* The window runners take one step per loop iteration.  logArgs and nEst  *)
(* record what a call did (the arguments np.log was given, the number of   *)
(* point estimates computed); they are not program state.                  *)
(***************************************************************************)
EXTENDS Integers, Sequences, FiniteSets

VARIABLES op, pc, highs, lows, closes, window, bs, i, ests, nEst, logArgs,
          outcome, result

vars == <<op, pc, highs, lows, closes, window, bs, i, ests, nEst, logArgs,
          outcome, result>>

----------------------------------------------------------------------------
(* Bounds of the model *)

MaxLen == 3

MaxWindow == 3

MaxPointLen == 2

\* prices offered to the estimators, in units of TOL
Prices == {0, 1, 4}

\* prices offered to the window runners (well inside the estimators' domain)
WindowPrices == {1, 4}

----------------------------------------------------------------------------
(* Float arithmetic *)

SCALE == 10 * 10 * 10

NaN == [k |-> "nan", v |-> 0]

PInf == [k |-> "inf", v |-> 1]

NInf == [k |-> "inf", v |-> -1]

Fin(x) == [k |-> "fin", v |-> x]

IsNaN(a) == a.k = "nan"

IsInf(a) == a.k = "inf"

Sign(x) == IF x > 0 THEN 1 ELSE IF x < 0 THEN -1 ELSE 0

Abs(x) == IF x < 0 THEN -x ELSE x

\* a / b to the nearest integer, b > 0
RoundDiv(a, b) == IF a >= 0 THEN (2 * a + b) \div (2 * b)
                            ELSE -((2 * (-a) + b) \div (2 * b))

InfOf(s) == IF s >= 0 THEN PInf ELSE NInf

FNeg(a) == IF IsNaN(a) THEN NaN ELSE [k |-> a.k, v |-> -a.v]

FAdd(a, b) ==
  IF IsNaN(a) \/ IsNaN(b) THEN NaN
  ELSE IF IsInf(a) /\ IsInf(b) THEN (IF a.v = b.v THEN a ELSE NaN)
  ELSE IF IsInf(a) THEN a
  ELSE IF IsInf(b) THEN b
  ELSE Fin(a.v + b.v)

FSub(a, b) == FAdd(a, FNeg(b))

FMul(a, b) ==
  IF IsNaN(a) \/ IsNaN(b) THEN NaN
  ELSE IF IsInf(a) \/ IsInf(b)
    THEN (IF a.v = 0 \/ b.v = 0 THEN NaN ELSE InfOf(Sign(a.v) * Sign(b.v)))
  ELSE Fin(RoundDiv(a.v * b.v, SCALE))

FDiv(a, b) ==
  IF IsNaN(a) \/ IsNaN(b) THEN NaN
  ELSE IF IsInf(a) THEN (IF IsInf(b) THEN NaN
                         ELSE InfOf(Sign(a.v) * (IF b.v < 0 THEN -1 ELSE 1)))
  ELSE IF IsInf(b) THEN Fin(0)
  ELSE IF b.v = 0 THEN (IF a.v = 0 THEN NaN ELSE InfOf(Sign(a.v)))
  ELSE Fin(Sign(b.v) * RoundDiv(a.v * SCALE, Abs(b.v)))

\* a < b under IEEE comparison: false as soon as one side is NaN
FLess(a, b) ==
  IF IsNaN(a) \/ IsNaN(b) THEN FALSE
  ELSE IF IsInf(a) THEN a.v < 0 /\ ~(IsInf(b) /\ b.v < 0)
  ELSE IF IsInf(b) THEN b.v > 0
  ELSE a.v < b.v

\* np.maximum: NaN propagates
FMaximum(a, b) == IF IsNaN(a) \/ IsNaN(b) THEN NaN
                  ELSE IF FLess(a, b) THEN b ELSE a

RECURSIVE ISqrtBetween(_, _, _)
\* the largest r in lo..hi with r * r <= n, given lo * lo <= n < (hi+1)^2
ISqrtBetween(n, lo, hi) ==
  IF lo >= hi THEN lo
  ELSE LET mid == (lo + hi + 1) \div 2
       IN IF mid * mid <= n THEN ISqrtBetween(n, mid, hi)
                            ELSE ISqrtBetween(n, lo, mid - 1)

\* 46340 is the largest integer whose square fits the model's integers
ISqrt(n) == ISqrtBetween(n, 0, 46340)

FSqrt(a) ==
  IF IsNaN(a) THEN NaN
  ELSE IF IsInf(a) THEN (IF a.v > 0 THEN PInf ELSE NaN)
  ELSE IF a.v < 0 THEN NaN
  ELSE Fin(ISqrt(a.v * SCALE))

LN2 == RoundDiv(693147, SCALE)

\* ln of m in [1, 2), fixed point: 2 atanh((m-1)/(m+1)), four terms
LnMantissa(m) ==
  LET z  == RoundDiv((m - SCALE) * SCALE, m + SCALE)
      z2 == RoundDiv(z * z, SCALE)
      z3 == RoundDiv(z2 * z, SCALE)
      z5 == RoundDiv(z3 * z2, SCALE)
      z7 == RoundDiv(z5 * z2, SCALE)
  IN RoundDiv(2 * (105 * z + 35 * z3 + 21 * z5 + 15 * z7), 105)

RECURSIVE LnFix(_)
\* natural logarithm of a positive fixed-point number
LnFix(x) ==
  IF x >= 2 * SCALE THEN LN2 + LnFix(RoundDiv(x, 2))
  ELSE IF x < SCALE THEN LnFix(2 * x) - LN2
  ELSE LnMantissa(x)

FLog(a) ==
  IF IsNaN(a) THEN NaN
  ELSE IF IsInf(a) THEN (IF a.v > 0 THEN PInf ELSE NaN)
  ELSE IF a.v < 0 THEN NaN
  ELSE IF a.v = 0 THEN NInf
  ELSE Fin(LnFix(a.v))

\* e^f for f in [0, 1), fixed point: Taylor series, eight terms (Horner)
ExpFraction(f) ==
  LET h7 == SCALE + RoundDiv(f, 7)
      h6 == SCALE + RoundDiv(f * h7, 6 * SCALE)
      h5 == SCALE + RoundDiv(f * h6, 5 * SCALE)
      h4 == SCALE + RoundDiv(f * h5, 4 * SCALE)
      h3 == SCALE + RoundDiv(f * h4, 3 * SCALE)
      h2 == SCALE + RoundDiv(f * h3, 2 * SCALE)
  IN SCALE + RoundDiv(f * h2, SCALE)

EULER == RoundDiv(2718282, SCALE)

RECURSIVE ExpFix(_)
\* e^x of a fixed-point number
ExpFix(x) ==
  IF x < 0 THEN (IF x < -20 * SCALE THEN 0
                 ELSE RoundDiv(SCALE * SCALE, ExpFix(-x)))
  ELSE IF x >= SCALE THEN RoundDiv(EULER * ExpFix(x - SCALE), SCALE)
  ELSE ExpFraction(x)

FExp(a) ==
  IF IsNaN(a) THEN NaN
  ELSE IF IsInf(a) THEN (IF a.v > 0 THEN PInf ELSE Fin(0))
  ELSE Fin(ExpFix(a.v))

----------------------------------------------------------------------------
(* Arrays: Python slices and numpy reductions over sequences of floats *)

\* s[1:]
Rest(s) == SubSeq(s, 2, Len(s))

\* s[i:i+w] for 0 <= i and i + w <= len(s)
Slice(s, i0, w) == SubSeq(s, i0 + 1, i0 + w)

\* [x] * n
Repeat(x, n) == [k \in 1..n |-> x]

RECURSIVE SumSeq(_)
SumSeq(s) == IF s = <<>> THEN Fin(0) ELSE FAdd(s[1], SumSeq(Rest(s)))

\* np.mean of a non-empty array
Mean(s) == FDiv(SumSeq(s), Fin(Len(s) * SCALE))

RECURSIVE DropNaN(_)
DropNaN(s) == IF s = <<>> THEN <<>>
              ELSE IF IsNaN(s[1]) THEN DropNaN(Rest(s))
              ELSE <<s[1]>> \o DropNaN(Rest(s))

\* np.nanmean: the mean of the entries that are not NaN; of none, NaN (numpy
\* warns "Mean of empty slice" and returns nan)
NanMean(s) == LET kept == DropNaN(s)
              IN IF kept = <<>> THEN NaN ELSE Mean(kept)

----------------------------------------------------------------------------
(* LiquidityEstimator: the point estimators *)

TOL == 1

\* ln(1e-9), the logarithm of the price unit
LN_UNIT == -RoundDiv(20723266, SCALE)

\* np.log of a price (a whole number of TOL)
LogPrice(p) == IF p < 0 THEN NaN
               ELSE IF p = 0 THEN NInf
               ELSE Fin(LnFix(p * SCALE) + LN_UNIT)

\* the quotient of two prices, a plain number
PriceRatio(a, b) == FDiv(Fin(a * SCALE), Fin(b * SCALE))

Two == Fin(2 * SCALE)

\* AR_i before the square root, for the adjacent pair (k, k+1)
ARPair(log_closes, beta, k) ==
  FMul(FMul(Fin(4 * SCALE), FSub(log_closes[k], beta[k])),
       FSub(log_closes[k], beta[k + 1]))

\* the clamp of line 27; the radicand never goes below zero
ARClamp(x) == FMaximum(x, Fin(0))

abdi_ranaldo_estimator(hs, ls, cs) ==
  LET n          == Len(hs)
      log_highs  == [k \in 1..n |-> LogPrice(hs[k])]
      log_lows   == [k \in 1..n |-> LogPrice(ls[k])]
      log_closes == [k \in 1..n |-> LogPrice(cs[k])]
      beta       == [k \in 1..n |-> FDiv(FAdd(log_highs[k], log_lows[k]), Two)]
      AR_i       == [k \in 1..(n - 1) |->
                       FSqrt(ARClamp(ARPair(log_closes, beta, k)))]
  IN IF Len(AR_i) > 0 THEN Mean(AR_i) ELSE Fin(0)

\* the arguments np.log is evaluated at (line 21), by sign
ARLogArgs(hs, ls, cs) ==
  {[of |-> "highs", sgn |-> Sign(hs[k])] : k \in 1..Len(hs)} \cup
  {[of |-> "lows", sgn |-> Sign(ls[k])] : k \in 1..Len(ls)} \cup
  {[of |-> "closes", sgn |-> Sign(cs[k])] : k \in 1..Len(cs)}

\* lows = np.array(lows) + self.TOL
CSLows(ls) == [k \in 1..Len(ls) |-> ls[k] + TOL]

MaxInt(a, b) == IF a >= b THEN a ELSE b

MinInt(a, b) == IF a <= b THEN a ELSE b

CSHighAdj(hs, k) == MaxInt(hs[k], hs[k + 1])

\* low_adjs, from the lows already offset by TOL
CSLowAdj(lo, k) == MinInt(lo[k], lo[k + 1]) + TOL

Square(x) == FMul(x, x)

CSBeta(hs, lo, k) ==
  FAdd(Square(FLog(PriceRatio(hs[k], lo[k]))),
       Square(FLog(PriceRatio(hs[k + 1], lo[k + 1]))))

CSGamma(hs, lo, k) == Square(FLog(PriceRatio(CSHighAdj(hs, k), CSLowAdj(lo, k))))

\* d0 = 3 - 2*2**.5
CSd0 == FSub(Fin(3 * SCALE), FMul(Two, FSqrt(Two)))

CSAlpha(beta, gamma) ==
  FSub(FDiv(FSub(FSqrt(FMul(Two, beta)), FSqrt(beta)), CSd0),
       FSqrt(FDiv(gamma, CSd0)))

\* CS_adjs = 2 * (np.exp(alpha) - 1) / (1 + np.exp(alpha))
CSSpread(alpha) ==
  FDiv(FMul(Two, FSub(FExp(alpha), Fin(SCALE))), FAdd(Fin(SCALE), FExp(alpha)))

\* the pair values left as computed, negative ones included
CSUnclamped(x) == x

\* np.where(CS_adjs < 0, 0, CS_adjs)
CSClamp(x) == IF FLess(x, Fin(0)) THEN Fin(0) ELSE x

CSPairs(hs, ls) ==
  LET lo == CSLows(ls)
  IN [k \in 1..(Len(hs) - 1) |->
        CSClamp(CSSpread(CSAlpha(CSBeta(hs, lo, k), CSGamma(hs, lo, k))))]

\* CS_t = np.nanmean(CS_adjs)
CSAverage(pairs) == NanMean(pairs)

corwin_schultz_estimator(hs, ls) == CSAverage(CSPairs(hs, ls))

SignOf(a) == IF IsNaN(a) THEN 0 ELSE Sign(a.v)

\* the arguments np.log is evaluated at (lines 68-69), by sign
CSLogArgs(hs, ls) ==
  LET lo == CSLows(ls)
  IN {[of |-> "highs/lows", sgn |-> SignOf(PriceRatio(hs[k], lo[k]))] :
         k \in (IF Len(hs) >= 2 THEN 1..Len(hs) ELSE {})} \cup
     {[of |-> "high_adjs/low_adjs",
       sgn |-> SignOf(PriceRatio(CSHighAdj(hs, k), CSLowAdj(lo, k)))] :
         k \in 1..(Len(hs) - 1)}

----------------------------------------------------------------------------
(* LiquidityEstimator: the rolling-window runners *)

\* A call has not returned or raised yet
NoResult == [k |-> "none", v |-> 0]

\* line 39: len(highs) == len(lows) == len(closes)
ARSameShape(hs, ls, cs) == Len(hs) = Len(ls) /\ Len(ls) = Len(cs)

\* line 87: len(highs) == len(lows)
CSSameShape(hs, ls) == Len(hs) = Len(ls)

\* a validation that lets window = 0 through
WindowNegative(w) == w < 0

\* lines 41, 89: window <= 0 raises
WindowRejected(w) == w <= 0

\* a soft-fail test that lets a series of exactly one window through
IncompleteStrict(n_ts, w) == n_ts < w

\* lines 44, 92: n_ts <= window, "incomplete data"
Incomplete(n_ts, w) == n_ts <= w

\* lines 47, 95: range(n_ts - window + 1)
Iterations(n_ts, w) == n_ts - w + 1

\* a slice that does not move with the loop
WindowSliceFirst(s, i0, w) == Slice(s, 0, w)

\* lines 48, 96: the slice of iteration i0
WindowSlice(s, i0, w) == Slice(s, i0, w)

\* a padding of one entry too many
PaddingFull(w) == Repeat(NaN, w)

\* lines 51, 99: padding = [np.nan] * (window-1)
Padding(w) == Repeat(NaN, w - 1)

SeqsUpTo(S, n) == UNION {[1..k -> S] : k \in 0..n}

Windows == (-1)..MaxWindow

Init ==
  /\ op = "none"
  /\ pc = "idle"
  /\ highs = <<>>
  /\ lows = <<>>
  /\ closes = <<>>
  /\ window = 0
  /\ bs = <<>>
  /\ i = 0
  /\ ests = <<>>
  /\ nEst = 0
  /\ logArgs = {}
  /\ outcome = "none"
  /\ result = NoResult

Raise(e) ==
  /\ pc' = "done"
  /\ outcome' = e
  /\ result' = NoResult

Return(x) ==
  /\ pc' = "done"
  /\ outcome' = "returned"
  /\ result' = x

\* abdi_ranaldo_estimator_window, up to the loop (lines 39-46)
ARWindowCall(hs, ls, cs, w) ==
  /\ pc = "idle"
  /\ op' = "abdi_ranaldo_estimator_window"
  /\ highs' = hs /\ lows' = ls /\ closes' = cs /\ window' = w
  /\ i' = 0 /\ ests' = <<>>
  /\ UNCHANGED <<bs, nEst, logArgs>>
  /\ IF ~ARSameShape(hs, ls, cs) THEN Raise("ValueError")
     ELSE IF WindowRejected(w) THEN Raise("ValueError")
     ELSE IF Incomplete(Len(hs), w) THEN Return(Repeat(NaN, Len(hs)))
     ELSE pc' = "loop" /\ UNCHANGED <<outcome, result>>

\* one iteration of the loop of lines 47-49
ARWindowIter ==
  /\ pc = "loop"
  /\ op = "abdi_ranaldo_estimator_window"
  /\ i < Iterations(Len(highs), window)
  /\ LET window_highs  == WindowSlice(highs, i, window)
         window_lows   == WindowSlice(lows, i, window)
         window_closes == WindowSlice(closes, i, window)
     IN /\ ests' = Append(ests, abdi_ranaldo_estimator(window_highs, window_lows,
                                                      window_closes))
        /\ logArgs' = logArgs \cup ARLogArgs(window_highs, window_lows,
                                             window_closes)
  /\ i' = i + 1
  /\ nEst' = nEst + 1
  /\ UNCHANGED <<op, pc, highs, lows, closes, window, bs, outcome, result>>

\* lines 51-52: pad and return
ARWindowReturn ==
  /\ pc = "loop"
  /\ op = "abdi_ranaldo_estimator_window"
  /\ i >= Iterations(Len(highs), window)
  /\ Return(Padding(window) \o ests)
  /\ UNCHANGED <<op, highs, lows, closes, window, bs, i, ests, nEst, logArgs>>

\* corwin_schultz_estimator_window, up to the loop (lines 87-94)
CSWindowCall(hs, ls, w) ==
  /\ pc = "idle"
  /\ op' = "corwin_schultz_estimator_window"
  /\ highs' = hs /\ lows' = ls /\ closes' = <<>> /\ window' = w
  /\ i' = 0 /\ ests' = <<>>
  /\ UNCHANGED <<bs, nEst, logArgs>>
  /\ IF ~CSSameShape(hs, ls) THEN Raise("ValueError")
     ELSE IF WindowRejected(w) THEN Raise("ValueError")
     ELSE IF Incomplete(Len(hs), w) THEN Return(Repeat(NaN, Len(hs)))
     ELSE pc' = "loop" /\ UNCHANGED <<outcome, result>>

\* one iteration of the loop of lines 95-97
CSWindowIter ==
  /\ pc = "loop"
  /\ op = "corwin_schultz_estimator_window"
  /\ i < Iterations(Len(highs), window)
  /\ LET window_highs == WindowSlice(highs, i, window)
         window_lows  == WindowSlice(lows, i, window)
     IN /\ ests' = Append(ests, corwin_schultz_estimator(window_highs, window_lows))
        /\ logArgs' = logArgs \cup CSLogArgs(window_highs, window_lows)
  /\ i' = i + 1
  /\ nEst' = nEst + 1
  /\ UNCHANGED <<op, pc, highs, lows, closes, window, bs, outcome, result>>

\* lines 99-100: pad and return
CSWindowReturn ==
  /\ pc = "loop"
  /\ op = "corwin_schultz_estimator_window"
  /\ i >= Iterations(Len(highs), window)
  /\ Return(Padding(window) \o ests)
  /\ UNCHANGED <<op, highs, lows, closes, window, bs, i, ests, nEst, logArgs>>

----------------------------------------------------------------------------
(* LiquidityEstimator: the point estimators called on their own *)

ARCall(hs, ls, cs) ==
  /\ pc = "idle"
  /\ op' = "abdi_ranaldo_estimator"
  /\ highs' = hs /\ lows' = ls /\ closes' = cs
  /\ logArgs' = ARLogArgs(hs, ls, cs)
  /\ nEst' = nEst + 1
  /\ Return(abdi_ranaldo_estimator(hs, ls, cs))
  /\ UNCHANGED <<window, bs, i, ests>>

CSCall(hs, ls) ==
  /\ pc = "idle"
  /\ op' = "corwin_schultz_estimator"
  /\ highs' = hs /\ lows' = ls /\ closes' = <<>>
  /\ logArgs' = CSLogArgs(hs, ls)
  /\ nEst' = nEst + 1
  /\ Return(corwin_schultz_estimator(hs, ls))
  /\ UNCHANGED <<window, bs, i, ests>>

----------------------------------------------------------------------------
(* BlackScholes *)

\* scipy's norm.cdf for 0 <= x <= 4, fixed point: Abramowitz-Stegun 26.2.18,
\* 1 - (1/2) (1 + c1 x + c2 x^2 + c3 x^3 + c4 x^4)^-4, coefficients in 1e-4
NcUpper(x) ==
  LET x2  == RoundDiv(x * x, SCALE)
      x3  == RoundDiv(x2 * x, SCALE)
      x4  == RoundDiv(x2 * x2, SCALE)
      t   == SCALE + RoundDiv(1969 * x + 1152 * x2 + 3 * x3 + 195 * x4, 10000)
      r   == RoundDiv(SCALE * SCALE, t)
      r2  == RoundDiv(r * r, SCALE)
      r4  == RoundDiv(r2 * r2, SCALE)
  IN SCALE - RoundDiv(r4, 2)

\* norm.cdf; beyond 4 standard deviations it is 0 or 1 to the model's resolution
Nc(a) ==
  IF IsNaN(a) THEN NaN
  ELSE IF IsInf(a) THEN (IF a.v > 0 THEN Fin(SCALE) ELSE Fin(0))
  ELSE IF a.v > 4 * SCALE THEN Fin(SCALE)
  ELSE IF a.v < -4 * SCALE THEN Fin(0)
  ELSE IF a.v >= 0 THEN Fin(NcUpper(a.v))
  ELSE Fin(SCALE - NcUpper(-a.v))

\* 1 / sqrt(2 pi)
INV_SQRT_2PI == RoundDiv(398942, SCALE)

\* norm.pdf; beyond 6 standard deviations it is 0 to the model's resolution
Np(a) ==
  IF IsNaN(a) THEN NaN
  ELSE IF IsInf(a) THEN Fin(0)
  ELSE IF Abs(a.v) > 6 * SCALE THEN Fin(0)
  ELSE FMul(FExp(FDiv(FNeg(Square(a)), Two)), Fin(INV_SQRT_2PI))

\* S / K on Python numbers raises ZeroDivisionError at K = 0; on numpy values it
\* gives +-inf or nan with a warning
SOverKRaises(a) == ~a.np /\ a.K.v = 0

\* d1 = (np.log(S / K) + (R + sigma ** 2 / 2) * T) / (sigma * np.sqrt(T))
BSd1(a) ==
  FDiv(FAdd(FLog(FDiv(a.S, a.K)),
            FMul(FAdd(a.R, FDiv(Square(a.sigma), Two)), a.T)),
       FMul(a.sigma, FSqrt(a.T)))

\* d2 = d1 - sigma * np.sqrt(T)
BSd2(a) == FSub(BSd1(a), FMul(a.sigma, FSqrt(a.T)))

\* K * np.exp(-R*T)
BSDiscountedStrike(a) == FMul(a.K, FExp(FMul(FNeg(a.R), a.T)))

\* the body of an if option_type == "C" ... elif option_type == "P" ...
\* statement: the value assigned, or NoResult when neither branch is taken
ByTag(tag, call, put) ==
  IF tag = "C" THEN call ELSE IF tag = "P" THEN put ELSE NoResult

\* return <expression over the local>: UnboundLocalError when no branch
\* assigned the local
ReturnLocal(local, value) ==
  IF local = NoResult THEN Raise("UnboundLocalError") ELSE Return(value)

BSPriceValue(a) ==
  ByTag(a.option_type,
        FSub(FMul(a.S, Nc(BSd1(a))), FMul(BSDiscountedStrike(a), Nc(BSd2(a)))),
        FSub(FMul(BSDiscountedStrike(a), Nc(FNeg(BSd2(a)))),
             FMul(a.S, Nc(FNeg(BSd1(a))))))

BSDeltaValue(a) ==
  ByTag(a.option_type, Nc(BSd1(a)), FSub(Nc(BSd1(a)), Fin(SCALE)))

BSGammaValue(a) ==
  FDiv(Np(BSd1(a)), FMul(FMul(a.S, a.sigma), FSqrt(a.T)))

\* vega * 0.01
BSVegaValue(a) ==
  FDiv(FMul(FMul(a.S, Np(BSd1(a))), FSqrt(a.T)), Fin(100 * SCALE))

\* -S * Np(d1) * sigma / (2 * np.sqrt(T))
BSThetaDecay(a) ==
  FDiv(FMul(FMul(FNeg(a.S), Np(BSd1(a))), a.sigma), FMul(Two, FSqrt(a.T)))

BSThetaValue(a) ==
  ByTag(a.option_type,
        FSub(BSThetaDecay(a),
             FMul(FMul(a.R, BSDiscountedStrike(a)), Nc(BSd2(a)))),
        FAdd(BSThetaDecay(a),
             FMul(FMul(a.R, BSDiscountedStrike(a)), Nc(FNeg(BSd2(a))))))

\* K * T * np.exp(-R * T) * Nc(+-d2), the two factors of K first
BSRhoValue(a) ==
  ByTag(a.option_type,
        FMul(FMul(FMul(a.K, a.T), FExp(FMul(FNeg(a.R), a.T))), Nc(BSd2(a))),
        FMul(FMul(FMul(FNeg(a.K), a.T), FExp(FMul(FNeg(a.R), a.T))),
             Nc(FNeg(BSd2(a)))))

\* Python's max(0, x): x when x > 0, else 0
PyMax0(x) == IF FLess(Fin(0), x) THEN x ELSE Fin(0)

BSExpiryValue(a) ==
  ByTag(a.option_type,
        FMul(PyMax0(FSub(a.S, a.K)), a.size),
        FMul(PyMax0(FSub(a.K, a.S)), a.size))

SpotValues == {-SCALE, 0, SCALE}

StrikeValues == {0, SCALE, 2 * SCALE}

ExpiryValues == {0, SCALE}

SigmaValues == {0, SCALE \div 5}

RateValues == {SCALE \div 20}

SizeValues == {SCALE, 10 * SCALE}

Tags == {"C", "P", "X"}

\* the arguments of a call of a pricing operation (size is not used)
PricingArgs ==
  {[S |-> Fin(s), K |-> Fin(k), T |-> Fin(t), R |-> Fin(r), sigma |-> Fin(sg),
    option_type |-> tag, size |-> Fin(SCALE), np |-> b] :
     s \in SpotValues, k \in StrikeValues, t \in ExpiryValues, r \in RateValues,
     sg \in SigmaValues, tag \in Tags, b \in BOOLEAN}

\* gamma and vega take no option_type
UntaggedArgs == {a \in PricingArgs : a.option_type = "C"}

\* option_value_expiry takes S, K, size and option_type
ExpiryArgs ==
  {[S |-> Fin(s), K |-> Fin(k), T |-> Fin(0), R |-> Fin(0), sigma |-> Fin(0),
    option_type |-> tag, size |-> Fin(z), np |-> FALSE] :
     s \in SpotValues, k \in StrikeValues, z \in SizeValues, tag \in Tags}

BSEnter(name, a) ==
  /\ pc = "idle"
  /\ op' = name
  /\ bs' = a
  /\ UNCHANGED <<highs, lows, closes, window, i, ests, nEst, logArgs>>

BSPrice(a) ==
  /\ BSEnter("price", a)
  /\ IF SOverKRaises(a) THEN Raise("ZeroDivisionError")
     ELSE ReturnLocal(BSPriceValue(a), BSPriceValue(a))

BSDelta(a) ==
  /\ BSEnter("delta", a)
  /\ IF SOverKRaises(a) THEN Raise("ZeroDivisionError")
     ELSE ReturnLocal(BSDeltaValue(a), BSDeltaValue(a))

BSGamma(a) ==
  /\ BSEnter("gamma", a)
  /\ IF SOverKRaises(a) THEN Raise("ZeroDivisionError")
     ELSE Return(BSGammaValue(a))

BSVega(a) ==
  /\ BSEnter("vega", a)
  /\ IF SOverKRaises(a) THEN Raise("ZeroDivisionError")
     ELSE Return(BSVegaValue(a))

\* return theta / 365
BSTheta(a) ==
  /\ BSEnter("theta", a)
  /\ IF SOverKRaises(a) THEN Raise("ZeroDivisionError")
     ELSE ReturnLocal(BSThetaValue(a), FDiv(BSThetaValue(a), Fin(365 * SCALE)))

\* return rho * 0.01
BSRho(a) ==
  /\ BSEnter("rho", a)
  /\ IF SOverKRaises(a) THEN Raise("ZeroDivisionError")
     ELSE ReturnLocal(BSRhoValue(a), FDiv(BSRhoValue(a), Fin(100 * SCALE)))

BSOptionValueExpiry(a) ==
  /\ BSEnter("option_value_expiry", a)
  /\ ReturnLocal(BSExpiryValue(a), BSExpiryValue(a))

----------------------------------------------------------------------------
(* The specification *)

\* a call is made when no call is under way; its arguments are drawn here
ARWindowEnter ==
  /\ pc = "idle"
  /\ \E hs, ls, cs \in SeqsUpTo(WindowPrices, MaxLen), w \in Windows :
       ARWindowCall(hs, ls, cs, w)

CSWindowEnter ==
  /\ pc = "idle"
  /\ \E hs, ls \in SeqsUpTo(WindowPrices, MaxLen), w \in Windows :
       CSWindowCall(hs, ls, w)

\* the point estimators are given arrays of one shape (numpy would refuse to
\* combine others)
AREnter ==
  /\ pc = "idle"
  /\ \E n \in 0..MaxPointLen : \E hs, ls, cs \in [1..n -> Prices] :
       ARCall(hs, ls, cs)

CSEnter ==
  /\ pc = "idle"
  /\ \E n \in 0..MaxPointLen : \E hs, ls \in [1..n -> Prices] : CSCall(hs, ls)

PriceCall == pc = "idle" /\ \E a \in PricingArgs : BSPrice(a)

DeltaCall == pc = "idle" /\ \E a \in PricingArgs : BSDelta(a)

GammaCall == pc = "idle" /\ \E a \in UntaggedArgs : BSGamma(a)

VegaCall == pc = "idle" /\ \E a \in UntaggedArgs : BSVega(a)

ThetaCall == pc = "idle" /\ \E a \in PricingArgs : BSTheta(a)

RhoCall == pc = "idle" /\ \E a \in PricingArgs : BSRho(a)

OptionValueExpiryCall ==
  pc = "idle" /\ \E a \in ExpiryArgs : BSOptionValueExpiry(a)

Next ==
  \/ ARWindowEnter
  \/ ARWindowIter
  \/ ARWindowReturn
  \/ CSWindowEnter
  \/ CSWindowIter
  \/ CSWindowReturn
  \/ AREnter
  \/ CSEnter
  \/ PriceCall
  \/ DeltaCall
  \/ GammaCall
  \/ VegaCall
  \/ ThetaCall
  \/ RhoCall
  \/ OptionValueExpiryCall

Spec == Init /\ [][Next]_vars

----------------------------------------------------------------------------
(* Properties of the rolling-window runners *)

WindowOps == {"abdi_ranaldo_estimator_window", "corwin_schultz_estimator_window"}

PointOps == {"abdi_ranaldo_estimator", "corwin_schultz_estimator"}

\* the call under way passes the validation of lines 39-42 / 87-90
ShapesAgree ==
  /\ Len(highs) = Len(lows)
  /\ op = "abdi_ranaldo_estimator_window" => Len(closes) = Len(highs)

\* the point estimate of the window whose last bar is bar j (counted from 0)
EstimateEndingAt(j) ==
  LET first == j - window + 2
      last  == j + 1
  IN IF op = "abdi_ranaldo_estimator_window"
     THEN abdi_ranaldo_estimator(SubSeq(highs, first, last),
                                 SubSeq(lows, first, last),
                                 SubSeq(closes, first, last))
     ELSE corwin_schultz_estimator(SubSeq(highs, first, last),
                                   SubSeq(lows, first, last))

C2_LengthPreserved ==
  (op \in WindowOps /\ pc = "done" /\ ShapesAgree /\ window > 0)
  => outcome = "returned" /\ Len(result) = Len(highs)

\* a loop that ran n-window+1 times, padded to n entries
C2_Witness ==
  /\ op = "abdi_ranaldo_estimator_window" /\ pc = "done" /\ ShapesAgree
  /\ window >= 2 /\ Len(highs) > window
  /\ outcome = "returned"
  /\ Len(ests) = Len(highs) - window + 1
  /\ Len(result) = Len(highs)

\* C3: with n > window the first window-1 entries are NaN and entry j, for
\* window-1 <= j <= n-1, is the point estimate of the slice [j-window+1, j+1).
C3_EndOfWindowAlignment ==
  (op \in WindowOps /\ pc = "done" /\ ShapesAgree /\ window > 0
     /\ Len(highs) > window)
  => /\ outcome = "returned"
     /\ \A j \in 0..(Len(highs) - 1) :
          /\ j + 1 \in DOMAIN result
          /\ result[j + 1] = IF j < window - 1 THEN NaN ELSE EstimateEndingAt(j)

\* padding, then estimates that differ from one window to the next
C3_Witness ==
  /\ op \in WindowOps /\ pc = "done" /\ ShapesAgree
  /\ window >= 2 /\ Len(highs) > window
  /\ outcome = "returned"
  /\ result[1] = NaN
  /\ result[window] # NaN
  /\ result[Len(highs)] # result[window]
  /\ result[Len(highs)] = EstimateEndingAt(Len(highs) - 1)

\* C4: a call with inputs of different lengths or with window <= 0 raises
\* ValueError: no point estimate is computed, the n <= window soft-fail is not
\* taken, and nothing is returned.
C4_ValidationFirst ==
  (op \in WindowOps /\ pc # "idle" /\ (~ShapesAgree \/ window <= 0))
  => /\ pc = "done"
     /\ outcome = "ValueError"
     /\ result = NoResult
     /\ nEst = 0
     /\ ests = <<>>

\* closes of another length with n <= window: raised, not answered with NaNs
C4_Witness ==
  /\ op = "abdi_ranaldo_estimator_window" /\ pc = "done"
  /\ Len(highs) = Len(lows) /\ Len(closes) # Len(highs)
  /\ window > 0 /\ Len(highs) <= window
  /\ outcome = "ValueError" /\ nEst = 0

\* C10: with n >= window (n = window included) the output is window-1 NaN
\* entries followed by the n-window+1 point estimates, the entry at index
\* window-1 being the estimate of the first window.
C10_PaddingThenEstimates ==
  (op \in WindowOps /\ pc = "done" /\ ShapesAgree /\ window > 0
     /\ Len(highs) >= window)
  => /\ outcome = "returned"
     /\ Len(result) = Len(highs)
     /\ \A j \in 0..(Len(highs) - 1) :
          result[j + 1] = IF j < window - 1 THEN NaN ELSE EstimateEndingAt(j)

----------------------------------------------------------------------------
(* Properties of the point estimators *)

AllPositive(s) == \A k \in 1..Len(s) : s[k] > 0

\* C5: a point estimator given finite positive prices, be the series as short
\* as one bar, returns a number >= 0, never NaN.
C5_PointEstimateNonNegative ==
  (op \in PointOps /\ pc = "done" /\ Len(highs) >= 1
     /\ AllPositive(highs) /\ AllPositive(lows) /\ AllPositive(closes))
  => outcome = "returned" /\ result.k = "fin" /\ result.v >= 0

TwoIdenticalBars ==
  /\ op = "corwin_schultz_estimator" /\ pc = "done"
  /\ Len(highs) = 2 /\ Len(lows) = 2
  /\ highs[1] = highs[2] /\ lows[1] = lows[2]

\* C8 as stated: Corwin-Schultz on two bars with the same (high, low) pair,
\* high >= low > 0, returns 0.
C8_IdenticalBarsZero ==
  (TwoIdenticalBars /\ highs[1] >= lows[1] /\ lows[1] > 0)
  => result = Fin(0)

\* C8 as amended: Corwin-Schultz on two bars with the same (high, low) pair
\* and no range, high = low > 0, returns 0.
C8_ZeroRangeBarsZero ==
  (TwoIdenticalBars /\ highs[1] = lows[1] /\ lows[1] > 0)
  => result = Fin(0)

\* a zero-range pair whose pair value is negative before the clamp of line 75
C8_Witness ==
  /\ TwoIdenticalBars /\ highs[1] = lows[1] /\ lows[1] > 0
  /\ LET lo == CSLows(lows)
     IN FLess(CSSpread(CSAlpha(CSBeta(highs, lo, 1), CSGamma(highs, lo, 1))),
              Fin(0))
  /\ result = Fin(0)

\* C9: with every low >= 0 and every high (and close) > 0, no estimator
\* evaluates a logarithm at an argument <= 0.
C9_LogArgumentsPositive ==
  (op \in PointOps \cup WindowOps /\ pc = "done"
     /\ (\A k \in 1..Len(lows) : lows[k] >= 0)
     /\ AllPositive(highs) /\ AllPositive(closes))
  => \A e \in logArgs : e.sgn > 0

----------------------------------------------------------------------------
(* Properties of BlackScholes *)

PricingOps == {"price", "delta", "gamma", "vega", "theta", "rho"}

DirectionOps == {"price", "delta", "theta", "rho", "option_value_expiry"}

\* T = 0, sigma = 0, S <= 0 or K <= 0
Degenerate(a) == a.T.v = 0 \/ a.sigma.v = 0 \/ a.S.v <= 0 \/ a.K.v <= 0

\* C6: a pricing operation given a degenerate input either signals an error
\* or returns a finite value; it never returns NaN or +-Inf.
C6_NoNaNOrInfReturned ==
  (op \in PricingOps /\ pc = "done" /\ Degenerate(bs)
     /\ bs.option_type \in {"C", "P"} /\ outcome = "returned")
  => result.k = "fin"

\* C7: a direction-dependent operation takes one of its two branches for
\* every tag it is called with; it never reaches its return with no result
\* assigned.
C7_TagHandled ==
  (op \in DirectionOps /\ pc = "done")
  => outcome # "UnboundLocalError"

====
